---------------------------- MODULE Spec2Model ----------------------------
(***************************************************************************)
(* State-machine model of the Digital Residue Exchange Portal back end     *)
(* (server.js): the uploads and comments tables of the SQLite store, the   *)
(* uploads/ directory, the request handlers and the hourly cleanup job.    *)
(*                                                                         *)
(* Strings are sequences of one-character strings.  A request field that  *)
(* is absent (JavaScript undefined) is the value Undefined; SQL NULL is    *)
(* the empty tuple Null where a timestamp is expected.  Each database      *)
(* statement and each file-system call is one atomic step; the callbacks   *)
(* of a handler are separate steps, so other handlers interleave between   *)
(* a handler's SELECT and its later UPDATE / DELETE.                       *)
(* The variable resp holds the HTTP response emitted by the step that led  *)
(* to the current state (NoResp when that step answered no request).       *)
(***************************************************************************)
EXTENDS Integers, Sequences, FiniteSets, TLC

(***************************************************************************)
(* Bounds of the model.                                                    *)
(***************************************************************************)
MaxUploads == 2      \* rows ever inserted into uploads
MaxNow == 1          \* clock horizon, in days
MaxCount == 2        \* cap on like_count / download_count
MaxComments == 1     \* rows ever inserted into comments
MaxPending == 1      \* PUT and DELETE handlers in flight at once

(***************************************************************************)
(* Strings.                                                                *)
(***************************************************************************)
Undefined == <<"undefined">>
Null == <<>>
EmptyStr == <<>>

IsString(v) == v # Undefined
Truthy(v) == v # Undefined /\ v # EmptyStr

IsSpace(c) == c = " "

RECURSIVE trimStart(_)
trimStart(s) ==
    IF s # <<>> /\ IsSpace(Head(s)) THEN trimStart(Tail(s)) ELSE s

RECURSIVE trimEnd(_)
trimEnd(s) ==
    IF s # <<>> /\ IsSpace(s[Len(s)]) THEN trimEnd(SubSeq(s, 1, Len(s) - 1)) ELSE s

trim(s) == trimEnd(trimStart(s))

startsWith(s, p) == Len(s) >= Len(p) /\ SubSeq(s, 1, Len(p)) = p

\* No truncation.
slice_Whole(s, n) == s

slice(s, n) == SubSeq(s, 1, IF Len(s) < n THEN Len(s) ELSE n)

(***************************************************************************)
(* Secret codes.                                                           *)
(***************************************************************************)
ADMIN_SECRET == <<".", ".", "/", ".", ".", "/">>

alphabet ==
    <<"A", "B", "C", "D", "E", "F", "G", "H", "J", "K", "L", "M", "N", "P", "Q", "R",
      "S", "T", "U", "V", "W", "X", "Y", "Z", "2", "3", "4", "5", "6", "7", "8", "9">>

CodeLength == 6

\* A loop that stops one round early.
generateSecretCode_Short(rnd) == [i \in 1..(CodeLength - 1) |-> alphabet[rnd[i] + 1]]

\* rnd[i] is Math.floor(Math.random() * alphabet.length) of the i-th round.
generateSecretCode(rnd) == [i \in 1..CodeLength |-> alphabet[rnd[i] + 1]]

(***************************************************************************)
(* Time.  The clock counts days; toISOString renders a time as a fixed-    *)
(* width digit string, and the store compares such strings as text.        *)
(***************************************************************************)
toISOString(t) == <<t \div 10, t % 10>>

RECURSIVE TextLeq(_, _)
TextLeq(a, b) ==
    IF a = <<>> THEN TRUE
    ELSE IF b = <<>> THEN FALSE
    ELSE IF Head(a) # Head(b) THEN Head(a) < Head(b)
    ELSE TextLeq(Tail(a), Tail(b))

Sel1d == <<"1", "d">>
Sel1w == <<"1", "w">>
Sel2w == <<"2", "w">>
Sel1m == <<"1", "m">>

\* The '1d' and '1w' cases exchanged.
computeExpiryFromSelection_Swapped(selection, t, monthDays) ==
    IF selection = Sel1d THEN toISOString(t + 7)
    ELSE IF selection = Sel1w THEN toISOString(t + 1)
    ELSE IF selection = Sel2w THEN toISOString(t + 14)
    ELSE IF selection = Sel1m THEN toISOString(t + monthDays)
    ELSE Null

\* monthDays is the length of the month setMonth(+1) steps over.
computeExpiryFromSelection(selection, t, monthDays) ==
    IF selection = Sel1d THEN toISOString(t + 1)
    ELSE IF selection = Sel1w THEN toISOString(t + 7)
    ELSE IF selection = Sel2w THEN toISOString(t + 14)
    ELSE IF selection = Sel1m THEN toISOString(t + monthDays)
    ELSE Null


(***************************************************************************)
(* Calendar: day 0 of the clock is 31 January of a 365-day year.           *)
(***************************************************************************)
MonthLengths == <<31, 28, 31, 30, 31, 30, 31, 31, 30, 31, 30, 31>>

RECURSIVE MonthOfDay(_, _)
MonthOfDay(d, m) ==
    IF d < MonthLengths[m] THEN m ELSE MonthOfDay(d - MonthLengths[m], m + 1)

Digit(n) == <<"0", "1", "2", "3", "4", "5", "6", "7", "8", "9">>[n + 1]

\* strftime("%m", upload_date)
strftimeMonth(t) ==
    LET m == MonthOfDay((t + 30) % 365, 1) IN <<Digit(m \div 10), Digit(m % 10)>>

RECURSIVE padStart(_, _, _)
padStart(s, n, c) == IF Len(s) >= n THEN s ELSE padStart(<<c>> \o s, n, c)

(***************************************************************************)
(* SQL LIKE: % matches any run of characters, _ any one character, and     *)
(* ASCII letters match without regard to case.                             *)
(***************************************************************************)
Lower(c) ==
    CASE c = "A" -> "a" [] c = "B" -> "b" [] c = "D" -> "d" [] c = "T" -> "t"
      [] OTHER -> c

RECURSIVE LikeMatch(_, _)
LikeMatch(p, s) ==
    IF p = <<>> THEN s = <<>>
    ELSE IF Head(p) = "%"
         THEN LikeMatch(Tail(p), s) \/ (s # <<>> /\ LikeMatch(p, Tail(s)))
    ELSE IF s = <<>> THEN FALSE
    ELSE IF Head(p) = "_" THEN LikeMatch(Tail(p), Tail(s))
    ELSE Lower(Head(p)) = Lower(Head(s)) /\ LikeMatch(Tail(p), Tail(s))

Contains(q) == <<"%">> \o q \o <<"%">>

(***************************************************************************)
(* State.                                                                  *)
(***************************************************************************)
VARIABLES
    uploads,        \* table uploads: id -> row
    seq_uploads,    \* AUTOINCREMENT high-water mark of uploads
    comments,       \* table comments: id -> row
    seq_comments,   \* AUTOINCREMENT high-water mark of comments
    files,          \* names of the files in the uploads/ directory
    now,            \* the clock
    updating,       \* PUT handlers between their SELECT and their UPDATE
    deleting,       \* DELETE handlers between their SELECT and their DELETE
    downloading,    \* download_count UPDATEs issued and not yet run, per id
    sweeping,       \* rows of the running cleanup job not yet removed
    resp,           \* response emitted by the last step
    likeOk,         \* history: Like calls answered with success, per id
    downloadOk,     \* history: Download calls that found the row and sent the file
    deletedOk,      \* history: ids whose Delete answered with success
    issued,         \* history: the secret code each Upload response returned
    lastSweep       \* history: the rows due when the latest cleanup run started

vars == <<uploads, seq_uploads, comments, seq_comments, files, now, updating,
          deleting, downloading, sweeping, resp, likeOk, downloadOk, deletedOk,
          issued, lastSweep>>

db == <<uploads, seq_uploads, comments, seq_comments>>
inflight == <<updating, deleting, downloading, sweeping>>
history == <<likeOk, downloadOk, deletedOk, issued, lastSweep>>

Ids == 1..MaxUploads

NoResp == [op |-> "none", id |-> 0, status |-> 0, body |-> <<>>, req |-> <<>>]
NoFile == [present |-> FALSE]

PublicColumns ==
    {"id", "title", "description", "tags", "filename", "original_name",
     "uploader_name", "like_count", "download_count", "upload_date"}

\* SELECT * in place of the column list.
SelectPublic_Star(row) == row

\* SELECT id, title, ..., upload_date FROM uploads
SelectPublic(row) == [c \in PublicColumns |-> row[c]]

\* An exchange: the endpoint, the :id of the request path (0 when the path has
\* none), the HTTP status and the body.
\* For PUT and DELETE the record also keeps the request body that was answered (req).
Reply(status, op, id, body, req) ==
    [op |-> op, id |-> id, status |-> status, body |-> body, req |-> req]
Json(status, op, id, body) == Reply(status, op, id, body, <<>>)
Error(status, op, id, msg) == Json(status, op, id, [error |-> msg])
\* The handler has queued its next statement and has not answered yet.
Accepted(op, id, req) == Reply(0, op, id, <<>>, req)

Remove(f, k) == [i \in DOMAIN f \ {k} |-> f[i]]

\* All orders of the rows of S that respect the ORDER BY relation before, a set
\* of pairs <<a, b>> of rows where a sorts strictly ahead of b.
Ordered(S, before) ==
    {s \in [1..Cardinality(S) -> S] :
        /\ \A i, j \in DOMAIN s : i # j => s[i] # s[j]
        /\ \A i, j \in DOMAIN s : i < j => <<s[j], s[i]>> \notin before}

\* The previous response has been handed to the client: a callback may run.
Idle == resp = NoResp

Init ==
    /\ uploads = <<>>
    /\ seq_uploads = 0
    /\ comments = <<>>
    /\ seq_comments = 0
    /\ files = {}
    /\ now = 0
    /\ updating = {}
    /\ deleting = {}
    /\ downloading = [i \in Ids |-> 0]
    /\ sweeping = {}
    /\ resp = NoResp
    /\ likeOk = [i \in Ids |-> 0]
    /\ downloadOk = [i \in Ids |-> 0]
    /\ deletedOk = {}
    /\ issued = <<>>
    /\ lastSweep = {}

Tick(d) ==
    /\ Idle
    /\ now + d <= MaxNow
    /\ now' = now + d
    /\ resp' = NoResp
    /\ UNCHANGED <<db, files, inflight, history>>

\* A year of the calendar passes.
NewYear ==
    /\ Idle
    /\ now <= MaxNow
    /\ now' = now + 365
    /\ resp' = NoResp
    /\ UNCHANGED <<db, files, inflight, history>>

(***************************************************************************)
(* POST /api/upload.  multer stores the file before the handler runs.      *)
(***************************************************************************)
ImagePrefix == <<"i", "m", "a", "g", "e", "/">>

\* multer.diskStorage filename: Date.now() and a random suffix
StoredName(t, frnd) == <<t, frnd>>

\* A plain INTEGER PRIMARY KEY: one more than the largest id now stored.
lastID_MaxStored ==
    IF DOMAIN uploads = {} THEN 1
    ELSE 1 + CHOOSE m \in DOMAIN uploads : \A i \in DOMAIN uploads : i <= m

\* id INTEGER PRIMARY KEY AUTOINCREMENT: one more than the largest id ever used.
lastID == seq_uploads + 1

MulterStore(file, name) == IF file.present THEN files \cup {name} ELSE files

Upload(file, title, description, tags, uploader_name, auto_delete, rnd, frnd, monthDays) ==
    LET filename == StoredName(now, frnd)
        secretCode == generateSecretCode(rnd)
        expiresAt == computeExpiryFromSelection(auto_delete, now, monthDays)
        id == lastID
        row == [id |-> id,
                title |-> title,
                description |-> IF Truthy(description) THEN description ELSE EmptyStr,
                tags |-> IF Truthy(tags) THEN tags ELSE EmptyStr,
                filename |-> filename,
                original_name |-> file.originalname,
                uploader_name |-> uploader_name,
                like_count |-> 0,
                download_count |-> 0,
                upload_date |-> now,
                secret_code |-> secretCode,
                expires_at |-> expiresAt]
    IN
    /\ Idle
    /\ files' = MulterStore(file, filename)
    /\ UNCHANGED <<comments, seq_comments, now, inflight, likeOk, downloadOk,
                   deletedOk, lastSweep>>
    /\ IF ~file.present
       THEN /\ resp' = Error(400, "upload", 0, "No file uploaded")
            /\ UNCHANGED <<uploads, seq_uploads, issued>>
       ELSE IF ~Truthy(file.mimetype) \/ ~startsWith(file.mimetype, ImagePrefix)
       THEN /\ resp' = Error(400, "upload", 0, "Only image uploads are allowed")
            /\ UNCHANGED <<uploads, seq_uploads, issued>>
       ELSE IF ~Truthy(title) \/ ~Truthy(uploader_name)
       THEN /\ resp' = Error(400, "upload", 0, "Title and uploader name are required")
            /\ UNCHANGED <<uploads, seq_uploads, issued>>
       ELSE /\ seq_uploads < MaxUploads
            /\ issued' = (id :> secretCode) @@ issued
            /\ uploads' = (id :> row) @@ uploads
            /\ seq_uploads' = id
            /\ resp' = Reply(200, "upload", id,
                             [message |-> "File uploaded successfully",
                              id |-> id,
                              filename |-> filename,
                              secret_code |-> secretCode,
                              expires_at |-> expiresAt],
                             [auto_delete |-> auto_delete])

(***************************************************************************)
(* Query Service.                                                          *)
(***************************************************************************)
NewerFirst(a, b) == a.upload_date > b.upload_date

\* GET /api/uploads
\* The listing with the WHERE clause of the cleanup job negated: expired rows left out.
List_Unexpired ==
    /\ Idle
    /\ LET selected == {SelectPublic(uploads[i]) :
                              i \in {j \in DOMAIN uploads :
                                       \/ uploads[j].expires_at = Null
                                       \/ ~TextLeq(uploads[j].expires_at, toISOString(now))}}
       IN \E rows \in Ordered(selected, {p \in selected \X selected : NewerFirst(p[1], p[2])}) :
          resp' = Json(200, "list", 0, rows)
    /\ UNCHANGED <<db, files, now, inflight, history>>

List ==
    /\ Idle
    /\ LET selected == {SelectPublic(uploads[i]) : i \in DOMAIN uploads}
       IN \E rows \in Ordered(selected, {p \in selected \X selected : NewerFirst(p[1], p[2])}) :
          resp' = Json(200, "list", 0, rows)
    /\ UNCHANGED <<db, files, now, inflight, history>>

\* GET /api/uploads/:id
GetById(id) ==
    /\ Idle
    /\ resp' = IF id \in DOMAIN uploads
               THEN Json(200, "get", id, SelectPublic(uploads[id]))
               ELSE Error(404, "get", id, "File not found")
    /\ UNCHANGED <<db, files, now, inflight, history>>

SearchMatches(row, q, tag) ==
    /\ Truthy(q) => \/ LikeMatch(Contains(q), row.title)
                    \/ LikeMatch(Contains(q), row.description)
    /\ Truthy(tag) => LikeMatch(Contains(tag), row.tags)

\* GET /api/search
Search(q, tag) ==
    /\ Idle
    /\ LET selected == {SelectPublic(uploads[i]) :
                              i \in {j \in DOMAIN uploads : SearchMatches(uploads[j], q, tag)}}
       IN \E rows \in Ordered(selected, {p \in selected \X selected : NewerFirst(p[1], p[2])}) :
          resp' = Reply(200, "search", 0, rows, [q |-> q, tag |-> tag])
    /\ UNCHANGED <<db, files, now, inflight, history>>

\* The ORDER BY without its second key.
RanksBefore_LikesOnly(a, b) == a.like_count > b.like_count

RanksBefore(a, b) ==
    \/ a.like_count > b.like_count
    \/ a.like_count = b.like_count /\ a.download_count > b.download_count

LeaderboardMatches(row, month) ==
    Truthy(month) => strftimeMonth(row.upload_date) = padStart(month, 2, "0")

\* GET /api/leaderboard
Leaderboard(month) ==
    /\ Idle
    /\ LET selected == {SelectPublic(uploads[i]) :
                              i \in {j \in DOMAIN uploads : LeaderboardMatches(uploads[j], month)}}
       IN \E rows \in Ordered(selected, {p \in selected \X selected : RanksBefore(p[1], p[2])}) :
          resp' = Reply(200, "leaderboard", 0, rows, [month |-> month])
    /\ UNCHANGED <<db, files, now, inflight, history>>


(***************************************************************************)
(* The store is opened without PRAGMA foreign_keys = ON, so SQLite does    *)
(* not enforce the FOREIGN KEY clause of comments, ON DELETE CASCADE       *)
(* included.                                                               *)
(***************************************************************************)
ForeignKeys == FALSE

\* DELETE FROM uploads WHERE id = ?
DeleteUpload(id) == Remove(uploads, id)

\* the comments left by DELETE FROM uploads WHERE id = ?
CommentsAfterDelete(id) ==
    IF ForeignKeys
    THEN [c \in {k \in DOMAIN comments : comments[k].upload_id # id} |-> comments[c]]
    ELSE comments

(***************************************************************************)
(* Mutation Service: Like and Download.                                    *)
(***************************************************************************)
\* An absolute write in place of the relative one.
IncrementLikes_Absolute(row) == [row EXCEPT !.like_count = 1]

\* A like that counts once per upload.
IncrementLikes_Once(row) == [row EXCEPT !.like_count = IF @ = 0 THEN 1 ELSE @]

\* UPDATE uploads SET like_count = like_count + 1
IncrementLikes(row) == [row EXCEPT !.like_count = @ + 1]

\* An increment by two in place of one.
IncrementDownloads_Twice(row) == [row EXCEPT !.download_count = @ + 2]

\* UPDATE uploads SET download_count = download_count + 1
IncrementDownloads(row) == [row EXCEPT !.download_count = @ + 1]

\* POST /api/like/:id
Like(id) ==
    /\ Idle
    /\ UNCHANGED <<seq_uploads, comments, seq_comments, files, now, inflight,
                   downloadOk, deletedOk, issued, lastSweep>>
    /\ IF id \in DOMAIN uploads
       THEN /\ uploads[id].like_count < MaxCount
            /\ uploads' = [uploads EXCEPT ![id] = IncrementLikes(@)]
            /\ likeOk' = [likeOk EXCEPT ![id] = @ + 1]
            /\ resp' = Json(200, "like", id, [message |-> "File liked successfully"])
       ELSE /\ resp' = Error(404, "like", id, "File not found")
            /\ UNCHANGED <<uploads, likeOk>>

\* GET /api/download/:id: the SELECT, the queued UPDATE and res.download
DownloadGet(id) ==
    /\ Idle
    /\ UNCHANGED <<db, files, now, updating, deleting, sweeping, likeOk, deletedOk,
                   issued, lastSweep>>
    /\ IF id \notin DOMAIN uploads
       THEN /\ resp' = Error(404, "download", id, "File not found")
            /\ UNCHANGED <<downloading, downloadOk>>
       ELSE /\ uploads[id].download_count + downloading[id] < MaxCount
            /\ downloadOk[id] < MaxCount
            /\ downloading' = [downloading EXCEPT ![id] = @ + 1]
            /\ IF uploads[id].filename \in files
               THEN /\ resp' = Json(200, "download", id,
                                    [file |-> uploads[id].filename,
                                     name |-> uploads[id].original_name])
                    /\ downloadOk' = [downloadOk EXCEPT ![id] = @ + 1]
               ELSE /\ resp' = Error(404, "download", id, "ENOENT")
                    /\ UNCHANGED downloadOk

\* the queued UPDATE of download_count runs
DownloadRun(id) ==
    /\ Idle
    /\ downloading[id] > 0
    /\ downloading' = [downloading EXCEPT ![id] = @ - 1]
    /\ uploads' = IF id \in DOMAIN uploads
                  THEN [uploads EXCEPT ![id] = IncrementDownloads(@)]
                  ELSE uploads
    /\ resp' = NoResp
    /\ UNCHANGED <<seq_uploads, comments, seq_comments, files, now, updating,
                   deleting, sweeping, history>>

\* the queued UPDATE of download_count fails: the error is logged, nothing more
DownloadFail(id) ==
    /\ Idle
    /\ downloading[id] > 0
    /\ downloading' = [downloading EXCEPT ![id] = @ - 1]
    /\ resp' = NoResp
    /\ UNCHANGED <<db, files, now, updating, deleting, sweeping, history>>

(***************************************************************************)
(* Cleanup job.                                                            *)
(***************************************************************************)
FromISO(s) == s[1] * 10 + s[2]

\* The WHERE clause without expires_at IS NOT NULL.
Expired_IgnoringNull(row, nowIso) == TextLeq(row.expires_at, nowIso)

\* The comparison written as < instead of <=.
Expired_Strict(row, nowIso) ==
    row.expires_at # Null /\ TextLeq(row.expires_at, nowIso) /\ row.expires_at # nowIso

\* WHERE expires_at IS NOT NULL AND expires_at <= ?
Expired(row, nowIso) == row.expires_at # Null /\ TextLeq(row.expires_at, nowIso)

\* the timer fires: SELECT id, filename of the expired rows, one unlink each
SweepStart ==
    /\ Idle
    /\ sweeping = {}
    /\ sweeping' = {[id |-> i, filename |-> uploads[i].filename, step |-> "unlink"] :
                      i \in {j \in DOMAIN uploads : Expired(uploads[j], toISOString(now))}}
    /\ lastSweep' = {[id |-> i, filename |-> uploads[i].filename] :
                       i \in {j \in DOMAIN uploads :
                                /\ uploads[j].expires_at # Null
                                /\ FromISO(uploads[j].expires_at) <= now}}
    /\ resp' = NoResp
    /\ UNCHANGED <<db, files, now, updating, deleting, downloading, likeOk,
                   downloadOk, deletedOk, issued>>

\* fs.unlink of one expired row's file
SweepUnlink(r) ==
    /\ Idle
    /\ r \in sweeping /\ r.step = "unlink"
    /\ files' = files \ {r.filename}
    /\ sweeping' = (sweeping \ {r}) \cup {[r EXCEPT !.step = "delete"]}
    /\ resp' = NoResp
    /\ UNCHANGED <<db, now, updating, deleting, downloading, history>>

\* fs.unlink of one expired row's file fails with an error other than ENOENT:
\* the error is logged and the DELETE follows all the same
SweepUnlinkFail(r) ==
    /\ Idle
    /\ r \in sweeping /\ r.step = "unlink"
    /\ r.filename \in files
    /\ sweeping' = (sweeping \ {r}) \cup {[r EXCEPT !.step = "delete"]}
    /\ resp' = NoResp
    /\ UNCHANGED <<db, files, now, updating, deleting, downloading, history>>

\* DELETE FROM uploads of one expired row fails: the error is logged
SweepDeleteFail(r) ==
    /\ Idle
    /\ r \in sweeping /\ r.step = "delete"
    /\ sweeping' = sweeping \ {r}
    /\ resp' = NoResp
    /\ UNCHANGED <<db, files, now, updating, deleting, downloading, history>>

\* DELETE FROM uploads of one expired row
SweepDelete(r) ==
    /\ Idle
    /\ r \in sweeping /\ r.step = "delete"
    /\ uploads' = DeleteUpload(r.id)
    /\ comments' = CommentsAfterDelete(r.id)
    /\ sweeping' = sweeping \ {r}
    /\ resp' = NoResp
    /\ UNCHANGED <<seq_uploads, seq_comments, files, now, updating, deleting,
                   downloading, history>>

(***************************************************************************)
(* Comment Service.                                                        *)
(***************************************************************************)
NameLimit == 120
CommentLimit == 4000

NewestFirst(a, b) == a.created_at > b.created_at

\* GET /api/uploads/:id/comments
ListComments(id) ==
    /\ Idle
    /\ LET selected == {[id |-> c, name |-> comments[c].name,
                             comment |-> comments[c].comment,
                             created_at |-> comments[c].created_at] :
                              c \in {k \in DOMAIN comments : comments[k].upload_id = id}}
       IN \E rows \in Ordered(selected, {p \in selected \X selected : NewestFirst(p[1], p[2])}) :
          resp' = Json(200, "comments", id, rows)
    /\ UNCHANGED <<db, files, now, inflight, history>>

\* POST /api/uploads/:id/comments
AddComment(id, name, comment) ==
    LET cid == seq_comments + 1
        row == [upload_id |-> id,
                name |-> slice(IF Truthy(name) THEN name ELSE EmptyStr, NameLimit),
                comment |-> slice(comment, CommentLimit),
                created_at |-> now]
        req == [name |-> name, comment |-> comment]
    IN
    /\ Idle
    /\ UNCHANGED <<uploads, seq_uploads, files, now, inflight, history>>
    /\ IF ~Truthy(comment) \/ trim(comment) = EmptyStr
       THEN /\ resp' = Reply(400, "comment", id, [error |-> "comment is required"], req)
            /\ UNCHANGED <<comments, seq_comments>>
       ELSE IF ForeignKeys /\ id \notin DOMAIN uploads
       THEN /\ resp' = Reply(500, "comment", id,
                              [error |-> "FOREIGN KEY constraint failed"], req)
            /\ UNCHANGED <<comments, seq_comments>>
       ELSE /\ seq_comments < MaxComments
            /\ comments' = (cid :> row) @@ comments
            /\ seq_comments' = cid
            /\ resp' = Reply(200, "comment", id, [id |-> cid], req)

(***************************************************************************)
(* Mutation Service: Update and Delete.                                    *)
(***************************************************************************)
\* Variants of the check, each a slip the handlers could make.
Authorized_AnyCode(secret_code, row) == Truthy(secret_code)

Authorized_Both(secret_code, row) ==
    secret_code = ADMIN_SECRET /\ row.secret_code = secret_code

\* secret_code === ADMIN_SECRET || row.secret_code === secret_code
Authorized(secret_code, row) ==
    secret_code = ADMIN_SECRET \/ row.secret_code = secret_code

\* Variants of the SET clause, each a slip the handler could make.
SetTitle_Untrimmed(title) == IF IsString(title) THEN [title |-> trim(title)] ELSE <<>>

SetDescription_Defaulted(description) ==
    [description |-> IF Truthy(description) THEN description ELSE EmptyStr]

\* the SET clause: column -> new value
SetTitle(title) ==
    IF IsString(title) /\ trim(title) # EmptyStr THEN [title |-> trim(title)] ELSE <<>>

SetDescription(description) ==
    IF IsString(description) THEN [description |-> description] ELSE <<>>

SetTags(tags) == IF IsString(tags) THEN [tags |-> tags] ELSE <<>>

SetClause(title, description, tags) ==
    SetTitle(title) @@ SetDescription(description) @@ SetTags(tags)

\* UPDATE uploads SET ... WHERE id = ?
ApplySet(row, fields) ==
    [c \in DOMAIN row |-> IF c \in DOMAIN fields THEN fields[c] ELSE row[c]]

\* PUT /api/uploads/:id up to the callback of its SELECT
UpdateGet(id, secret_code, title, description, tags) ==
    LET req == [secret_code |-> secret_code, title |-> title,
                description |-> description, tags |-> tags]
        Refuse(status, msg) == Reply(status, "update", id, [error |-> msg], req)
    IN
    /\ Idle
    /\ UNCHANGED <<db, files, now, deleting, downloading, sweeping, history>>
    /\ IF ~Truthy(secret_code)
       THEN /\ resp' = Refuse(400, "secret_code is required")
            /\ UNCHANGED updating
       ELSE IF id \notin DOMAIN uploads
       THEN /\ resp' = Refuse(404, "File not found")
            /\ UNCHANGED updating
       ELSE IF ~Authorized(secret_code, uploads[id])
       THEN /\ resp' = Refuse(403, "Invalid secret code")
            /\ UNCHANGED updating
       ELSE IF DOMAIN SetClause(title, description, tags) = {}
       THEN /\ resp' = Refuse(400, "No fields to update")
            /\ UNCHANGED updating
       ELSE /\ Cardinality(updating) + Cardinality(deleting) < MaxPending
            /\ updating' = updating \cup
                    {[id |-> id, fields |-> SetClause(title, description, tags),
                      supplied |-> [title |-> title, description |-> description,
                                    tags |-> tags]]}
            /\ resp' = Accepted("update", id, req)

\* the UPDATE runs and its callback answers
UpdateRun(u) ==
    /\ Idle
    /\ u \in updating
    /\ updating' = updating \ {u}
    /\ uploads' = IF u.id \in DOMAIN uploads
                  THEN [uploads EXCEPT ![u.id] = ApplySet(@, u.fields)]
                  ELSE uploads
    /\ resp' = Json(200, "update", u.id, [message |-> "Updated successfully"])
    /\ UNCHANGED <<seq_uploads, comments, seq_comments, files, now, deleting,
                   downloading, sweeping, history>>

\* DELETE /api/uploads/:id up to the callback of its SELECT
DeleteGet(id, secret_code) ==
    LET req == [secret_code |-> secret_code]
        Refuse(status, msg) == Reply(status, "delete", id, [error |-> msg], req)
    IN
    /\ Idle
    /\ UNCHANGED <<db, files, now, updating, downloading, sweeping, history>>
    /\ IF ~Truthy(secret_code)
       THEN /\ resp' = Refuse(400, "secret_code is required")
            /\ UNCHANGED deleting
       ELSE IF id \notin DOMAIN uploads
       THEN /\ resp' = Refuse(404, "File not found")
            /\ UNCHANGED deleting
       ELSE IF ~Authorized(secret_code, uploads[id])
       THEN /\ resp' = Refuse(403, "Invalid secret code")
            /\ UNCHANGED deleting
       ELSE /\ Cardinality(updating) + Cardinality(deleting) < MaxPending
            /\ deleting' = deleting \cup
                    {[id |-> id, filename |-> uploads[id].filename, step |-> "unlink"]}
            /\ resp' = Accepted("delete", id, req)

\* fs.unlink of the row's file
DeleteUnlink(r) ==
    /\ Idle
    /\ r \in deleting /\ r.step = "unlink"
    /\ files' = files \ {r.filename}
    /\ deleting' = (deleting \ {r}) \cup {[r EXCEPT !.step = "delete"]}
    /\ resp' = NoResp
    /\ UNCHANGED <<db, now, updating, downloading, sweeping, history>>

\* An unlink error answered as a failure of the request.
DeleteUnlinkFail_Abort(r) ==
    /\ Idle
    /\ r \in deleting /\ r.step = "unlink"
    /\ r.filename \in files
    /\ deleting' = deleting \ {r}
    /\ resp' = Error(500, "delete", r.id, "unlink failed")
    /\ UNCHANGED <<db, files, now, updating, downloading, sweeping, history>>

\* fs.unlink of the row's file fails with an error other than ENOENT: the error
\* is logged and the DELETE follows all the same
DeleteUnlinkFail(r) ==
    /\ Idle
    /\ r \in deleting /\ r.step = "unlink"
    /\ r.filename \in files
    /\ deleting' = (deleting \ {r}) \cup {[r EXCEPT !.step = "delete"]}
    /\ resp' = NoResp
    /\ UNCHANGED <<db, files, now, updating, downloading, sweeping, history>>

\* the DELETE runs and its callback answers
DeleteRun(r) ==
    /\ Idle
    /\ r \in deleting /\ r.step = "delete"
    /\ uploads' = DeleteUpload(r.id)
    /\ comments' = CommentsAfterDelete(r.id)
    /\ deleting' = deleting \ {r}
    /\ deletedOk' = deletedOk \cup {r.id}
    /\ resp' = Json(200, "delete", r.id, [message |-> "Deleted successfully"])
    /\ UNCHANGED <<seq_uploads, seq_comments, files, now, updating, downloading,
                   sweeping, likeOk, downloadOk, issued, lastSweep>>

(***************************************************************************)
(* Request inputs.                                                         *)
(***************************************************************************)
RequestIds == 1..(MaxUploads + 1)

ImagePng == ImagePrefix \o <<"p", "n", "g">>
TextPlain == <<"t", "e", "x", "t", "/", "p", "l", "a", "i", "n">>

Photo == [present |-> TRUE, mimetype |-> ImagePng, originalname |-> <<"p">>]
Notes == [present |-> TRUE, mimetype |-> TextPlain, originalname |-> <<"n">>]

\* outcomes of the six Math.random() rounds of generateSecretCode
RandomRounds == {[i \in 1..CodeLength |-> IF i = CodeLength THEN k ELSE 0] : k \in {0, 1}}

\* outcomes of the random suffix of a stored file name
FileDraws == {0, 1}

IssuableCodes == {generateSecretCode(r) : r \in RandomRounds}

Wrong1 == <<"W", "R", "O", "N", "G", "1">>

\* The process stops and starts again: the queued callbacks are lost, the
\* database and the uploads/ directory stay as they are.
Crash ==
    /\ Idle
    /\ updating # {} \/ deleting # {} \/ sweeping # {} \/ downloading # [i \in Ids |-> 0]
    /\ updating' = {}
    /\ deleting' = {}
    /\ sweeping' = {}
    /\ downloading' = [i \in Ids |-> 0]
    /\ resp' = NoResp
    /\ UNCHANGED <<db, files, now, history>>

\* res.json / res.download hands the response to the client
Deliver ==
    /\ resp # NoResp
    /\ resp' = NoResp
    /\ UNCHANGED <<db, files, now, inflight, history>>

(***************************************************************************)
(* The whole portal.                                                       *)
(***************************************************************************)
Next ==
    \/ Tick(1)
    \/ NewYear
    \/ \E file \in {NoFile, Photo, Notes}, title \in {Undefined, <<"a">>},
          description \in {Undefined, <<"d">>}, tags \in {Undefined, <<"t">>},
          sel \in {EmptyStr, Sel1d, Sel1w, Sel2w, Sel1m},
          rnd \in RandomRounds, frnd \in FileDraws :
          Upload(file, title, description, tags, <<"u">>, sel, rnd, frnd, 31)
    \/ List
    \/ \E id \in RequestIds : GetById(id)
    \/ \E q \in {Undefined, <<"A">>}, tag \in {Undefined, <<"t">>} : Search(q, tag)
    \/ \E month \in {Undefined, <<"1">>, <<"2">>} : Leaderboard(month)
    \/ \E id \in RequestIds : Like(id)
    \/ \E id \in Ids : DownloadFail(id)
    \/ \E r \in sweeping : SweepUnlinkFail(r)
    \/ \E r \in sweeping : SweepDeleteFail(r)
    \/ \E r \in deleting : DeleteUnlinkFail(r)
    \/ Crash
    \/ \E id \in RequestIds : DownloadGet(id)
    \/ \E id \in Ids : DownloadRun(id)
    \/ SweepStart
    \/ \E r \in sweeping : SweepUnlink(r)
    \/ \E r \in sweeping : SweepDelete(r)
    \/ \E id \in RequestIds : ListComments(id)
    \/ \E id \in RequestIds, name \in {Undefined, <<"n">>}, comment \in {<<" ">>, <<"c">>} :
          AddComment(id, name, comment)
    \/ \E id \in RequestIds, code \in IssuableCodes \cup {ADMIN_SECRET, Wrong1, Undefined},
          title \in {Undefined, <<" ">>, <<" ", "b">>},
          description \in {Undefined, EmptyStr, <<"e">>}, tags \in {Undefined, <<"g">>} :
          UpdateGet(id, code, title, description, tags)
    \/ \E u \in updating : UpdateRun(u)
    \/ \E id \in RequestIds, code \in IssuableCodes \cup {ADMIN_SECRET, Wrong1, Undefined} :
          DeleteGet(id, code)
    \/ \E r \in deleting : DeleteUnlink(r)
    \/ \E r \in deleting : DeleteRun(r)
    \/ Deliver

Spec == Init /\ [][Next]_vars

(***************************************************************************)
(* Ownership: uploads, comments, and secret-code-gated Update and Delete.  *)
(***************************************************************************)
SecretInputs == IssuableCodes \cup {ADMIN_SECRET, Wrong1, Undefined, EmptyStr}

\* Here every upload draws a file name of its own.
NextAuth ==
    \/ \E rnd \in RandomRounds, frnd \in {seq_uploads} :
          Upload(Photo, <<"a">>, Undefined, Undefined, <<"u">>, EmptyStr, rnd, frnd, 31)
    \/ AddComment(1, Undefined, <<"c">>)
    \/ \E id \in RequestIds : GetById(id)
    \/ \E id \in RequestIds, code \in SecretInputs, title \in {Undefined, <<" ", "b">>} :
          UpdateGet(id, code, title, Undefined, Undefined)
    \/ \E u \in updating : UpdateRun(u)
    \/ \E id \in RequestIds, code \in SecretInputs : DeleteGet(id, code)
    \/ \E r \in deleting : DeleteUnlink(r)
    \/ \E r \in deleting : DeleteRun(r)
    \/ Deliver

SpecAuth == Init /\ [][NextAuth]_vars

(***************************************************************************)
(* Metadata updates of uploads that have been liked.                       *)
(***************************************************************************)
FirstCode == [i \in 1..CodeLength |-> 0]

UpdateBody(title, description, tags) ==
    [title |-> title, description |-> description, tags |-> tags]

UpdateBodies ==
    {UpdateBody(Undefined, Undefined, Undefined),
     UpdateBody(<<" ">>, Undefined, Undefined),
     UpdateBody(<<" ", "b">>, Undefined, Undefined),
     UpdateBody(Undefined, EmptyStr, Undefined),
     UpdateBody(<<" ">>, Undefined, <<"g">>)}

NextUpdate ==
    \/ \E frnd \in {seq_uploads} :
          Upload(Photo, <<"a">>, <<"d">>, Undefined, <<"u">>, EmptyStr, FirstCode, frnd, 31)
    \/ Like(1)
    \/ \E id \in Ids, code \in {generateSecretCode(FirstCode), ADMIN_SECRET, Wrong1},
          body \in UpdateBodies :
          UpdateGet(id, code, body.title, body.description, body.tags)
    \/ \E u \in updating : UpdateRun(u)
    \/ Deliver

SpecUpdate == Init /\ [][NextUpdate]_vars

(***************************************************************************)
(* Counters: Like and Download calls on stored uploads, interleaved.       *)
(***************************************************************************)
NextCount ==
    \/ \E frnd \in {seq_uploads} :
          Upload(Photo, <<"a">>, Undefined, Undefined, <<"u">>, EmptyStr, FirstCode, frnd, 31)
    \/ \E id \in RequestIds : Like(id)
    \/ \E id \in RequestIds : DownloadGet(id)
    \/ \E id \in Ids : DownloadRun(id)
    \/ Deliver

SpecCount == Init /\ [][NextCount]_vars

(***************************************************************************)
(* Expiry: uploads with a one-day lifetime, the clock, the cleanup job,    *)
(* the Query Service and metadata updates.                                 *)
(***************************************************************************)
NextSweep ==
    \/ Tick(1)
    \/ \E sel \in {EmptyStr, Sel1d}, frnd \in {seq_uploads} :
          Upload(Photo, <<"a">>, Undefined, Undefined, <<"u">>, sel, FirstCode, frnd, 31)
    \/ SweepStart
    \/ \E r \in sweeping : SweepUnlink(r)
    \/ \E r \in sweeping : SweepDelete(r)
    \/ List
    \/ \E id \in Ids : GetById(id)
    \/ Search(<<"A">>, Undefined)
    \/ Leaderboard(Undefined)
    \/ \E id \in Ids :
          UpdateGet(id, generateSecretCode(FirstCode), <<" ", "b">>, Undefined, Undefined)
    \/ \E u \in updating : UpdateRun(u)
    \/ Deliver

SpecSweep == Init /\ [][NextSweep]_vars

(***************************************************************************)
(* Responses: every endpoint, with the mutations aimed at upload 1.        *)
(***************************************************************************)
NextQuery ==
    \/ \E file \in {NoFile, Photo, Notes}, title \in {Undefined, <<"a">>},
          frnd \in {seq_uploads} :
          Upload(file, title, Undefined, Undefined, <<"u">>, EmptyStr, FirstCode, frnd, 31)
    \/ List
    \/ \E id \in RequestIds : GetById(id)
    \/ \E q \in {Undefined, <<"A">>} : Search(q, Undefined)
    \/ \E month \in {Undefined, <<"1">>} : Leaderboard(month)
    \/ \E id \in {1, MaxUploads + 1} : Like(id)
    \/ \E id \in {1, MaxUploads + 1} : DownloadGet(id)
    \/ DownloadRun(1)
    \/ \E id \in {1, MaxUploads + 1} : ListComments(id)
    \/ \E comment \in {<<" ">>, <<"c">>} : AddComment(1, <<"n">>, comment)
    \/ \E code \in {generateSecretCode(FirstCode), Wrong1} :
          UpdateGet(1, code, <<" ", "b">>, Undefined, Undefined)
    \/ \E u \in updating : UpdateRun(u)
    \/ \E code \in {generateSecretCode(FirstCode), Wrong1} : DeleteGet(1, code)
    \/ \E r \in deleting : DeleteUnlink(r)
    \/ \E r \in deleting : DeleteRun(r)
    \/ Deliver

SpecQuery == Init /\ [][NextQuery]_vars

(***************************************************************************)
(* The step answered, or accepted, a PUT or DELETE: resp' then holds the   *)
(* request's id and body.                                                  *)
(***************************************************************************)
ManageStep == resp'.op \in {"update", "delete"} /\ resp'.status # 200

Forbidden == resp'.status = 403

(***************************************************************************)
(* C1.  For distinct uploads U and V, the secret code returned when U was  *)
(* created authorizes Update and Delete of U and is answered 403 by Update *)
(* and Delete of V.                                                        *)
(***************************************************************************)
C1_ReturnedCodeAuthorizesOnlyItsUpload ==
    [][ManageStep =>
          \A u \in DOMAIN uploads, v \in DOMAIN uploads :
             resp'.req.secret_code = issued[u] =>
                 /\ resp'.id = u => ~Forbidden
                 /\ u # v /\ resp'.id = v => Forbidden]_vars

(***************************************************************************)
(* C2.  When Delete answers with success the upload's row is gone and no   *)
(* comment carries its id, and a later Get-by-id of that id answers 404.   *)
(***************************************************************************)
CommentsOf(id) == {c \in DOMAIN comments : comments[c].upload_id = id}

C2_DeleteRemovesRowAndComments ==
    /\ resp.op = "delete" /\ resp.status = 200 =>
          resp.id \notin DOMAIN uploads /\ CommentsOf(resp.id) = {}
    /\ resp.op = "get" /\ resp.id \in deletedOk => resp.status = 404

(***************************************************************************)
(* C6.  An Update or Delete of an existing upload with a non-empty secret  *)
(* code that is neither the row's code nor the override is answered 403    *)
(* and leaves the rows, the comments and the stored files as they were.    *)
(***************************************************************************)
WrongCode(id, code) ==
    Truthy(code) /\ code # uploads[id].secret_code /\ code # ADMIN_SECRET

C6_WrongCodeForbiddenAndNothingChanges ==
    [][ManageStep /\ resp'.id \in DOMAIN uploads
             /\ WrongCode(resp'.id, resp'.req.secret_code) =>
          Forbidden /\ UNCHANGED <<uploads, comments, files>>]_vars

C6_Witness ==
    /\ resp.op = "delete" /\ resp.status = 403
    /\ resp.id \in DOMAIN uploads
    /\ CommentsOf(resp.id) # {}
    /\ uploads[resp.id].filename \in files

(***************************************************************************)
(* C7.  An Update or Delete of an existing upload is authorized exactly    *)
(* when the supplied code is the row's stored code or the operator         *)
(* override; a request without secret_code is answered 400 whether or not  *)
(* the row exists.                                                         *)
(***************************************************************************)
C7_AuthorizedIffOwnerOrOverride ==
    [][ManageStep =>
          LET id == resp'.id
              code == resp'.req.secret_code
          IN /\ ~Truthy(code) => resp'.status = 400
             /\ Truthy(code) /\ id \in DOMAIN uploads =>
                   (~Forbidden <=>
                       (code = uploads[id].secret_code \/ code = ADMIN_SECRET))]_vars

C7_Witness ==
    /\ resp.op = "delete" /\ resp.status = 0
    /\ resp.req.secret_code = ADMIN_SECRET
    /\ uploads[resp.id].secret_code # ADMIN_SECRET

(***************************************************************************)
(* C8.  An Upload answered with a client error inserts no row and writes   *)
(* no file.                                                                *)
(***************************************************************************)
C8_RejectedUploadHasNoSideEffect ==
    [][resp'.op = "upload" /\ resp'.status = 400 => UNCHANGED <<uploads, files>>]_vars

(***************************************************************************)
(* C9.  A successful Update changes, of the row it names, only the columns *)
(* among title, description and tags that the request supplied (title      *)
(* counts as supplied when it is non-empty after trimming); every other    *)
(* column of that row, every other row and the stored files stay as they   *)
(* were.                                                                   *)
(***************************************************************************)
Supplied(req) ==
    (IF IsString(req.title) /\ trim(req.title) # EmptyStr THEN {"title"} ELSE {})
    \cup (IF IsString(req.description) THEN {"description"} ELSE {})
    \cup (IF IsString(req.tags) THEN {"tags"} ELSE {})

C9_UpdateChangesOnlySuppliedFields ==
    [][resp'.op = "update" /\ resp'.status = 200 =>
          \A u \in updating \ updating' :
             /\ DOMAIN uploads' = DOMAIN uploads
             /\ files' = files
             /\ \A id \in DOMAIN uploads :
                   \A c \in DOMAIN uploads[id] :
                      (id # u.id \/ c \notin Supplied(u.supplied)) =>
                          uploads'[id][c] = uploads[id][c]]_vars

C9_Witness ==
    /\ resp.op = "update" /\ resp.status = 200
    /\ Cardinality(DOMAIN uploads) = 2
    /\ resp.id \in DOMAIN uploads
    /\ uploads[resp.id].title = <<"b">>
    /\ uploads[resp.id].description = <<"d">>
    /\ uploads[resp.id].like_count > 0

(***************************************************************************)
(* C10.  An authorized Update that supplies no title that is non-empty     *)
(* after trimming, no description and no tags is answered 400 and leaves   *)
(* the rows unchanged, and no step overwrites a stored title with the      *)
(* empty string.                                                           *)
(***************************************************************************)
C10_NothingSuppliedIsRejected ==
    [][/\ (/\ resp'.op = "update" /\ resp'.status # 200
           /\ resp'.id \in DOMAIN uploads
           /\ Truthy(resp'.req.secret_code)
           /\ ~WrongCode(resp'.id, resp'.req.secret_code)
           /\ Supplied(resp'.req) = {})
          => resp'.status = 400 /\ UNCHANGED uploads
       /\ \A id \in DOMAIN uploads \cap DOMAIN uploads' :
             uploads'[id].title = EmptyStr => uploads[id].title = EmptyStr]_vars

C10_Witness ==
    /\ resp.op = "update" /\ resp.status = 400
    /\ resp.id \in DOMAIN uploads
    /\ resp.req.title = <<" ">>
    /\ resp.req.secret_code = uploads[resp.id].secret_code

(***************************************************************************)
(* C3.  Under interleaved Like and Download calls no like_count or         *)
(* download_count ever decreases, like_count is the number of Like calls   *)
(* answered with success, and once no download is in flight download_count *)
(* is the number of Download calls that found the row and sent the file.   *)
(***************************************************************************)
CountsMatchCalls ==
    \A id \in DOMAIN uploads :
       /\ uploads[id].like_count = likeOk[id]
       /\ downloading[id] = 0 => uploads[id].download_count = downloadOk[id]

ReturnedIds ==
    IF resp.op \in {"list", "search", "leaderboard"} THEN {resp.body[i].id : i \in DOMAIN resp.body}
    ELSE IF resp.op = "get" /\ resp.status = 200 THEN {resp.body.id}
    ELSE {}

Rows(body) == {body[i] : i \in DOMAIN body}

CarriesSecret ==
    IF resp.op \in {"list", "search", "leaderboard", "comments"}
    THEN \E row \in Rows(resp.body) : "secret_code" \in DOMAIN row
    ELSE IF resp.op = "none" \/ resp.status = 0 THEN FALSE
    ELSE "secret_code" \in DOMAIN resp.body

C5_OnlyUploadReturnsSecret ==
    /\ CarriesSecret => resp.op = "upload" /\ resp.status = 200
    /\ resp.op = "upload" /\ resp.status = 200 =>
          resp.body.secret_code = uploads[resp.id].secret_code

C5_Witness ==
    /\ resp.op = "list" /\ Len(resp.body) = 2
    /\ comments # <<>>

(***************************************************************************)
(* Downloads: the SELECT, the queued UPDATE succeeding or failing, and a   *)
(* Delete of upload 1 in flight.                                           *)
(***************************************************************************)
NextDownload ==
    \/ \E frnd \in {seq_uploads} :
          Upload(Photo, <<"a">>, Undefined, Undefined, <<"u">>, EmptyStr, FirstCode, frnd, 31)
    \/ \E id \in RequestIds : DownloadGet(id)
    \/ \E id \in Ids : DownloadRun(id)
    \/ \E id \in Ids : DownloadFail(id)
    \/ DeleteGet(1, generateSecretCode(FirstCode))
    \/ \E r \in deleting : DeleteUnlink(r)
    \/ \E r \in deleting : DeleteRun(r)
    \/ Deliver

SpecDownload == Init /\ [][NextDownload]_vars

\* The step answered a download request.
DownloadStep == resp'.op = "download"

\* The step queued exactly one UPDATE of download_count, for the requested row.
QueuedOne == downloading' = [downloading EXCEPT ![resp'.id] = @ + 1]

\* The step sent the row's file under its original_name.
Served ==
    /\ resp'.status = 200
    /\ resp'.body = [file |-> uploads[resp'.id].filename,
                     name |-> uploads[resp'.id].original_name]

\* Every change the step made to the table is one row's download_count going up by 1.
CountedOnce ==
    \A id \in DOMAIN uploads :
       id \in DOMAIN uploads' /\ uploads'[id] # uploads[id] =>
          uploads'[id] = [uploads[id] EXCEPT !.download_count = @ + 1]

\* The step ran or dropped a queued UPDATE of download_count.
CounterStep == \E id \in Ids : downloading'[id] < downloading[id]

(***************************************************************************)
(* C11.  Download of an id with no row answers 404 and queues no counter   *)
(* update; Download of an id whose row exists queues one update, which     *)
(* raises that row's download_count by exactly 1, and sends the file under *)
(* original_name, before and whatever the outcome of the update.           *)
(***************************************************************************)
C11_DownloadCountsAndServes ==
    [][/\ DownloadStep /\ resp'.id \notin DOMAIN uploads =>
             resp'.status = 404 /\ UNCHANGED <<uploads, downloading>>
       /\ DownloadStep /\ resp'.id \in DOMAIN uploads =>
             Served /\ QueuedOne /\ UNCHANGED uploads
       /\ CounterStep => CountedOnce]_vars

(***************************************************************************)
(* C11, amended.  As C11, where the file is sent when the row's file is    *)
(* still in uploads/; when a Delete or cleanup run has already unlinked it *)
(* the update is queued all the same and the request fails.                *)
(***************************************************************************)
C11_DownloadServesStoredFile ==
    [][/\ DownloadStep /\ resp'.id \notin DOMAIN uploads =>
             resp'.status = 404 /\ UNCHANGED <<uploads, downloading>>
       /\ DownloadStep /\ resp'.id \in DOMAIN uploads =>
             /\ QueuedOne /\ UNCHANGED uploads
             /\ uploads[resp'.id].filename \in files => Served
             /\ uploads[resp'.id].filename \notin files => resp'.status = 404
       /\ CounterStep => CountedOnce]_vars

\* A file was sent and its counter update then failed; another was counted.
C11_Witness ==
    /\ 1 \in DOMAIN uploads
    /\ downloadOk[1] = 2
    /\ uploads[1].download_count = 1
    /\ downloading[1] = 0

(***************************************************************************)
(* C12.  Like on an id with no row answers 404 and changes no row; Like on *)
(* a stored id answers success and changes only that row's like_count, by  *)
(* exactly 1 each time, so the count is the number of Likes answered with  *)
(* success.                                                                *)
(***************************************************************************)
C12_LikeCountsEachCall ==
    [][resp'.op = "like" =>
          /\ resp'.id \notin DOMAIN uploads =>
                resp'.status = 404 /\ UNCHANGED uploads
          /\ resp'.id \in DOMAIN uploads =>
                /\ resp'.status = 200
                /\ uploads' = [uploads EXCEPT ![resp'.id].like_count = @ + 1]
                /\ uploads'[resp'.id].like_count = likeOk'[resp'.id]]_vars

C12_Witness ==
    /\ resp.op = "like" /\ resp.status = 200
    /\ uploads[resp.id].like_count = 2
    /\ \E other \in DOMAIN uploads : other # resp.id /\ uploads[other].like_count = 0

(***************************************************************************)
(* Code generation: uploads whose six draws cover every index of the       *)
(* alphabet, alone and mixed.                                              *)
(***************************************************************************)
CodeDraws ==
    {[i \in 1..CodeLength |-> k] : k \in 0..(Len(alphabet) - 1)}
        \cup {[i \in 1..CodeLength |-> (k * i) % Len(alphabet)] : k \in {5, 7}}

NextCode ==
    \/ \E rnd \in CodeDraws, frnd \in {seq_uploads} :
          Upload(Photo, <<"a">>, Undefined, Undefined, <<"u">>, EmptyStr, rnd, frnd, 31)
    \/ \E id \in Ids : GetById(id)
    \/ Deliver

SpecCode == Init /\ [][NextCode]_vars

UpperAlnum ==
    {"A", "B", "C", "D", "E", "F", "G", "H", "I", "J", "K", "L", "M", "N", "O", "P", "Q",
     "R", "S", "T", "U", "V", "W", "X", "Y", "Z", "0", "1", "2", "3", "4", "5", "6", "7",
     "8", "9"}

Ambiguous == {"0", "O", "1", "I"}

Symbols == {alphabet[i] : i \in DOMAIN alphabet}

\* The code of the upload just answered has 6 characters, all from the alphabet,
\* which is made of uppercase letters and digits without the ambiguous ones.
CodeWellFormed ==
    /\ Len(resp.body.secret_code) = 6
    /\ \A i \in DOMAIN resp.body.secret_code : resp.body.secret_code[i] \in Symbols
    /\ Symbols \subseteq UpperAlnum \ Ambiguous
    /\ resp.body.secret_code = uploads[resp.id].secret_code

UploadAnswered == resp.op = "upload" /\ resp.status = 200

(***************************************************************************)
(* C13.  Every secret code generated by Upload is exactly 6 characters     *)
(* long, each drawn from a 33-symbol uppercase alphanumeric alphabet       *)
(* without 0, O, 1 and I.                                                  *)
(***************************************************************************)
C13_CodeFrom33Symbols ==
    UploadAnswered => CodeWellFormed /\ Cardinality(Symbols) = 33

(***************************************************************************)
(* C13, amended.  Every secret code generated by Upload is exactly 6       *)
(* characters long, each drawn from the 32-symbol alphabet of the          *)
(* uppercase letters and digits other than 0, O, 1 and I.                  *)
(***************************************************************************)
C13_CodeFrom32Symbols ==
    UploadAnswered =>
        CodeWellFormed /\ Cardinality(Symbols) = 32 /\ Symbols = UpperAlnum \ Ambiguous

\* A code made of the last symbol of the alphabet, and a mixed one.
C13_Witness ==
    /\ UploadAnswered
    /\ resp.body.secret_code[1] = "9"
    /\ \E id \in DOMAIN uploads :
          \E i, j \in 1..CodeLength : uploads[id].secret_code[i] # uploads[id].secret_code[j]

(***************************************************************************)
(* Expiry selection: uploads with every auto_delete value at every time.   *)
(***************************************************************************)
Selections == {Undefined, EmptyStr, Sel1d, Sel1w, Sel2w, Sel1m}

NextExpiry ==
    \/ Tick(1)
    \/ \E sel \in Selections, frnd \in {seq_uploads} :
          Upload(Photo, <<"a">>, Undefined, Undefined, <<"u">>, sel, FirstCode, frnd, 31)
    \/ \E id \in Ids : GetById(id)
    \/ Deliver

SpecExpiry == Init /\ [][NextExpiry]_vars

\* The stored expiry of row id is its upload time plus days.
ExpiresAfter(id, days) ==
    /\ uploads[id].expires_at # Null
    /\ FromISO(uploads[id].expires_at) = uploads[id].upload_date + days

(***************************************************************************)
(* C14.  The expires_at stored and returned by Upload is the upload time   *)
(* plus 1 day for '1d', plus 7 days for '1w', plus 14 days for '2w', and   *)
(* null when auto_delete is empty or absent.                               *)
(***************************************************************************)
C14_ExpiryFromSelection ==
    UploadAnswered =>
        /\ resp.body.expires_at = uploads[resp.id].expires_at
        /\ resp.req.auto_delete = Sel1d => ExpiresAfter(resp.id, 1)
        /\ resp.req.auto_delete = Sel1w => ExpiresAfter(resp.id, 7)
        /\ resp.req.auto_delete = Sel2w => ExpiresAfter(resp.id, 14)
        /\ resp.req.auto_delete \in {EmptyStr, Undefined} =>
              uploads[resp.id].expires_at = Null

C14_Witness ==
    /\ UploadAnswered
    /\ resp.req.auto_delete = Sel2w
    /\ uploads[resp.id].upload_date = 1
    /\ \E id \in DOMAIN uploads : uploads[id].expires_at = Null

(***************************************************************************)
(* Search: uploads with varied title, description and tags, and queries    *)
(* with letters of either case and with the characters % and _.            *)
(***************************************************************************)
Queries == {Undefined, EmptyStr, <<"A">>, <<"b">>, <<"a", "b">>, <<"_">>, <<"%">>}

NextSearch ==
    \/ \E title \in {<<"a", "B">>, <<"d">>}, description \in {Undefined, <<"b">>},
          tags \in {Undefined, <<"t">>}, frnd \in {seq_uploads} :
          Upload(Photo, title, description, tags, <<"u">>, EmptyStr, FirstCode, frnd, 31)
    \/ \E q \in Queries, tag \in {Undefined, <<"T">>} : Search(q, tag)
    \/ Deliver

SpecSearch == Init /\ [][NextSearch]_vars

LowerCase(s) == [i \in DOMAIN s |-> Lower(s[i])]

\* q occurs in s as a substring, letters compared without regard to case.
HasSubstring(s, q) ==
    \E i \in 1..(Len(s) + 1) :
       /\ i + Len(q) - 1 <= Len(s)
       /\ LowerCase(SubSeq(s, i, i + Len(q) - 1)) = LowerCase(q)

\* The row satisfies the filters of the request, an absent or empty one being
\* no constraint.
Wanted(row, req) ==
    /\ Truthy(req.q) => HasSubstring(row.title, req.q) \/ HasSubstring(row.description, req.q)
    /\ Truthy(req.tag) => HasSubstring(row.tags, req.tag)

(***************************************************************************)
(* C15.  A Search response lists exactly the stored uploads whose title or *)
(* description contains q as a case-insensitive substring and, when tag is *)
(* given, whose tags contain tag; an absent filter is no constraint.       *)
(***************************************************************************)
C15_SearchReturnsSubstringMatches ==
    resp.op = "search" =>
        {resp.body[i].id : i \in DOMAIN resp.body}
            = {id \in DOMAIN uploads : Wanted(uploads[id], resp.req)}

\* A search for "_" answered with an upload that has no "_" in title or description.
C15_Witness ==
    /\ resp.op = "search" /\ resp.req.q = <<"_">>
    /\ \E i \in DOMAIN resp.body :
          /\ ~HasSubstring(resp.body[i].title, <<"_">>)
          /\ ~HasSubstring(resp.body[i].description, <<"_">>)

(***************************************************************************)
(* Leaderboard: uploads made in January and February of two years, likes   *)
(* and downloads, and the leaderboard with and without a month.            *)
(***************************************************************************)
Months == {Undefined, <<"1">>, <<"2">>, <<"0", "2">>, <<"1", "2">>}

NextLeader ==
    \/ Tick(1)
    \/ NewYear
    \/ \E frnd \in {seq_uploads} :
          Upload(Photo, <<"a">>, Undefined, Undefined, <<"u">>, EmptyStr, FirstCode, frnd, 31)
    \/ \E id \in Ids : Like(id)
    \/ DownloadGet(1)
    \/ DownloadRun(1)
    \/ \E month \in Months : Leaderboard(month)
    \/ Deliver

SpecLeader == Init /\ [][NextLeader]_vars

DigitValue(c) == CHOOSE n \in 0..9 : Digit(n) = c

\* The number a month parameter of one or two digits denotes.
MonthValue(month) ==
    IF Len(month) = 1 THEN DigitValue(month[1])
    ELSE 10 * DigitValue(month[1]) + DigitValue(month[2])

\* The calendar month, 1 to 12, of clock day t in whatever year it falls.
MonthOfYear(t) == MonthOfDay((t + 30) % 365, 1)

(***************************************************************************)
(* C16.  In every Leaderboard response an upload listed before another has *)
(* more likes, or as many likes and at least as many downloads; with a     *)
(* month 1-12 the response lists exactly the uploads whose upload_date     *)
(* falls in that month of any year, and without a month all uploads.       *)
(***************************************************************************)
C16_LeaderboardOrderAndMonth ==
    resp.op = "leaderboard" =>
        /\ \A i, j \in DOMAIN resp.body :
              i < j =>
                 \/ resp.body[i].like_count > resp.body[j].like_count
                 \/ /\ resp.body[i].like_count = resp.body[j].like_count
                    /\ resp.body[i].download_count >= resp.body[j].download_count
        /\ {resp.body[i].id : i \in DOMAIN resp.body}
              = {id \in DOMAIN uploads :
                    Truthy(resp.req.month) =>
                       MonthOfYear(uploads[id].upload_date) = MonthValue(resp.req.month)}
        /\ \A i \in DOMAIN resp.body : resp.body[i] = SelectPublic(uploads[resp.body[i].id])

\* February uploads of two different years, the less downloaded one listed last.
C16_Witness ==
    /\ resp.op = "leaderboard" /\ resp.req.month = <<"2">>
    /\ Len(resp.body) = 2
    /\ resp.body[1].upload_date + 365 = resp.body[2].upload_date
    /\ resp.body[1].like_count = resp.body[2].like_count
    /\ resp.body[1].download_count > resp.body[2].download_count
    /\ Cardinality(DOMAIN uploads) = 2

\* The uploads a step removed.
RemovedUploads == DOMAIN uploads \ DOMAIN uploads'

(***************************************************************************)
(* C17.  Every stored comment's upload_id is the id of a stored upload:    *)
(* a comment, once stored, stays as it is until its upload is removed, and *)
(* is removed in the very step that removes its upload.                    *)
(***************************************************************************)
C17_CommentsFollowTheirUpload ==
    [][/\ \A c \in DOMAIN comments' : comments'[c].upload_id \in DOMAIN uploads'
       /\ \A c \in DOMAIN comments :
             /\ c \in DOMAIN comments' => comments'[c] = comments[c]
             /\ c \notin DOMAIN comments' <=> comments[c].upload_id \in RemovedUploads]_vars

\* A comment stored for an id that no upload ever had.
C17_Witness ==
    /\ resp.op = "comment" /\ resp.status = 200
    /\ seq_uploads = 0
    /\ \E c \in DOMAIN comments : comments[c].upload_id = resp.id

(***************************************************************************)
(* Comments: names and comments that are absent, blank, short, padded and  *)
(* longer than the limits, on a stored upload and on an id without one.    *)
(***************************************************************************)
Long(n) == [i \in 1..n |-> "x"]

Names == {Undefined, <<"n">>, Long(NameLimit), Long(NameLimit + 1)}

Comments ==
    {Undefined, EmptyStr, <<" ">>, <<" ", "c", " ">>, Long(CommentLimit),
     Long(CommentLimit + 1)}

NextComment ==
    \/ \E frnd \in {seq_uploads} :
          Upload(Photo, <<"a">>, Undefined, Undefined, <<"u">>, EmptyStr, FirstCode, frnd, 31)
    \/ \E id \in {1, MaxUploads + 1}, name \in Names, comment \in Comments :
          AddComment(id, name, comment)
    \/ \E id \in {1, MaxUploads + 1} : ListComments(id)
    \/ Deliver

SpecComment == Init /\ [][NextComment]_vars

\* The first n characters of s, or all of s when it is shorter.
First(s, n) == [i \in 1..(IF Len(s) < n THEN Len(s) ELSE n) |-> s[i]]

\* s is absent, or has no character other than white space.
Blank(s) == s = Undefined \/ \A i \in DOMAIN s : IsSpace(s[i])

(***************************************************************************)
(* C18.  Add-comment answers a client error and stores nothing when the    *)
(* comment is missing or empty after trimming; otherwise it stores exactly *)
(* one comment, with the first 120 characters of the name (empty when      *)
(* absent) and the first 4000 characters of the comment, and returns its   *)
(* id; input over the limits is cut, never rejected.                       *)
(***************************************************************************)
C18_AddCommentValidatesAndClamps ==
    [][resp'.op = "comment" =>
          IF Blank(resp'.req.comment)
          THEN resp'.status = 400 /\ UNCHANGED comments
          ELSE /\ resp'.status = 200
               /\ resp'.body.id \notin DOMAIN comments
               /\ DOMAIN comments' = DOMAIN comments \cup {resp'.body.id}
               /\ \A c \in DOMAIN comments : comments'[c] = comments[c]
               /\ comments'[resp'.body.id].upload_id = resp'.id
               /\ comments'[resp'.body.id].name =
                     IF resp'.req.name = Undefined THEN EmptyStr
                     ELSE First(resp'.req.name, 120)
               /\ comments'[resp'.body.id].comment = First(resp'.req.comment, 4000)]_vars

\* A comment and a name over the limits, stored cut to them.
C18_Witness ==
    /\ resp.op = "comment" /\ resp.status = 200
    /\ Len(resp.req.name) = 121 /\ Len(comments[resp.body.id].name) = 120
    /\ Len(resp.req.comment) = 4001 /\ Len(comments[resp.body.id].comment) = 4000

(***************************************************************************)
(* Cleanup runs racing with requests: uploads with and without a lifetime, *)
(* the clock, and Update, Like and Download of upload 1 between the steps  *)
(* of a run.                                                               *)
(***************************************************************************)
NextSweepRace ==
    \/ Tick(1)
    \/ \E sel \in {EmptyStr, Sel1d}, frnd \in {seq_uploads} :
          Upload(Photo, <<"a">>, Undefined, Undefined, <<"u">>, sel, FirstCode, frnd, 31)
    \/ SweepStart
    \/ \E r \in sweeping : SweepUnlink(r)
    \/ \E r \in sweeping : SweepDelete(r)
    \/ UpdateGet(1, generateSecretCode(FirstCode), <<"b">>, Undefined, Undefined)
    \/ \E u \in updating : UpdateRun(u)
    \/ Like(1)
    \/ DownloadGet(1)
    \/ DownloadRun(1)
    \/ Deliver

SpecSweepRace == Init /\ [][NextSweepRace]_vars

\* What the latest cleanup run read when it started.
SweptIds == {r.id : r \in lastSweep}
SweptFiles == {r.filename : r \in lastSweep}

(***************************************************************************)
(* C19.  A cleanup run removes only rows its own read returned, rows whose *)
(* expires_at is set and not after the clock, and only their files: an     *)
(* upload created after the read, or without expires_at, or expiring       *)
(* later, keeps its row and its file through the run, whatever Upload,     *)
(* Update, Like and Download do in between.                                *)
(***************************************************************************)
C19_SweepRemovesOnlyItsSnapshot ==
    [][/\ \A id \in RemovedUploads :
             /\ id \in SweptIds
             /\ uploads[id].expires_at # Null
             /\ FromISO(uploads[id].expires_at) <= now
       /\ files \ files' \subseteq SweptFiles
       /\ \A id \in DOMAIN uploads \ SweptIds :
             uploads[id].filename \in files => uploads[id].filename \in files']_vars

\* A run has removed upload 1; upload 2, made after the run's read, is intact.
C19_Witness ==
    /\ sweeping = {} /\ SweptIds = {1}
    /\ 1 \notin DOMAIN uploads
    /\ 2 \in DOMAIN uploads
    /\ uploads[2].upload_date = now
    /\ uploads[2].expires_at # Null
    /\ uploads[2].filename \in files

(***************************************************************************)
(* Removal: Delete and the cleanup job on uploads with and without a       *)
(* lifetime, unlink succeeding or failing, and the process stopping        *)
(* between the steps.                                                      *)
(***************************************************************************)
NextRemoval ==
    \/ Tick(1)
    \/ \E sel \in {EmptyStr, Sel1d}, frnd \in {seq_uploads} :
          Upload(Photo, <<"a">>, Undefined, Undefined, <<"u">>, sel, FirstCode, frnd, 31)
    \/ \E id \in Ids : DeleteGet(id, generateSecretCode(FirstCode))
    \/ \E r \in deleting : DeleteUnlink(r)
    \/ \E r \in deleting : DeleteUnlinkFail(r)
    \/ \E r \in deleting : DeleteRun(r)
    \/ SweepStart
    \/ \E r \in sweeping : SweepUnlink(r)
    \/ \E r \in sweeping : SweepUnlinkFail(r)
    \/ \E r \in sweeping : SweepDelete(r)
    \/ Crash
    \/ Deliver

SpecRemoval == Init /\ [][NextRemoval]_vars

(***************************************************************************)
(* C20.  Delete and the cleanup job remove an upload's file before its     *)
(* row: whenever a row is removed its file is already gone, so at every    *)
(* point, a stop between the two steps included, a row may lack its file   *)
(* but no file in uploads/ belongs to a removed row.                       *)
(***************************************************************************)
C20_NoFileOutlivesItsRow ==
    [][\A id \in RemovedUploads : uploads[id].filename \notin files']_vars

\* Upload 1 was deleted with success and its file is still in uploads/.
C20_Witness ==
    /\ resp.op = "delete" /\ resp.status = 200 /\ resp.id = 1
    /\ \E t \in 0..MaxNow : StoredName(t, 0) \in files

(***************************************************************************)
(* Removal with failures and no stop of the process: unlink may fail for   *)
(* any upload, and the cleanup job's DELETE may fail for upload 1.  The    *)
(* uploads are made first, then the clock moves and they expire.  Every    *)
(* callback the event loop holds is run in the end: strong fairness for    *)
(* each upload's pending step, since a step waits while a response is      *)
(* being handed over.                                                      *)
(***************************************************************************)
NextUnblocked ==
    \/ seq_uploads = MaxUploads /\ Tick(1)
    \/ \E frnd \in {seq_uploads} :
          Upload(Photo, <<"a">>, Undefined, Undefined, <<"u">>, Sel1d, FirstCode, frnd, 31)
    \/ DeleteGet(2, generateSecretCode(FirstCode))
    \/ \E r \in deleting : DeleteUnlink(r)
    \/ \E r \in deleting : DeleteUnlinkFail(r)
    \/ \E r \in deleting : DeleteRun(r)
    \/ SweepStart
    \/ \E r \in sweeping : SweepUnlink(r)
    \/ \E r \in sweeping : SweepUnlinkFail(r)
    \/ \E r \in sweeping : SweepDelete(r)
    \/ \E r \in sweeping : r.id = 1 /\ SweepDeleteFail(r)
    \/ Deliver

\* The callbacks that hold upload 2 are run in the end.
CallbacksRun ==
    /\ SF_vars(Deliver)
    /\ SF_vars(\E r \in deleting : DeleteUnlink(r) \/ DeleteUnlinkFail(r))
    /\ SF_vars(\E r \in deleting : DeleteRun(r))
    /\ SF_vars(\E r \in sweeping : r.id = 2 /\ (SweepUnlink(r) \/ SweepUnlinkFail(r)))
    /\ SF_vars(\E r \in sweeping : r.id = 2 /\ SweepDelete(r))

SpecUnblocked == Init /\ [][NextUnblocked]_vars /\ CallbacksRun

\* A Delete of upload id has passed the code check and not answered yet.
DeletePending(id) == \E r \in deleting : r.id = id

\* The cleanup job holds upload id among the rows it read.
SweepPending(id) == \E r \in sweeping : r.id = id

\* Delete of upload id has answered success and the row is gone.
Deleted(id) ==
    /\ resp.op = "delete" /\ resp.status = 200 /\ resp.id = id
    /\ id \notin DOMAIN uploads

(***************************************************************************)
(* C21.  A file that cannot be removed never blocks the removal of the     *)
(* row: an authorized Delete ends with the row gone and a success answer   *)
(* whether the file was removed, was already missing or its unlink failed, *)
(* and a cleanup run removes upload 2 whatever failed for upload 1.        *)
(***************************************************************************)
C21_RemovalNotBlocked ==
    /\ DeletePending(2) ~> Deleted(2)
    /\ SweepPending(2) ~> 2 \notin DOMAIN uploads

\* Delete of upload 2 has answered success although its file could not be
\* removed, and upload 1 is still stored, without its file, after a cleanup run.
C21_Witness ==
    /\ Deleted(2)
    /\ \E t \in 0..MaxNow : StoredName(t, 1) \in files
    /\ 1 \in DOMAIN uploads /\ uploads[1].filename \notin files
    /\ 1 \in SweptIds /\ sweeping = {}

\* The uploads a step created.
CreatedUploads == DOMAIN uploads' \ DOMAIN uploads

\* A Delete or cleanup callback in flight that holds id holds the stored row's file.
HoldsSameUpload(r) == r.id \in DOMAIN uploads => uploads[r.id].filename = r.filename

(***************************************************************************)
(* C22.  Upload ids are unique and strictly increasing in creation order   *)
(* across Upload, Delete and cleanup: the first upload ever gets id 1, a   *)
(* new upload gets an id above every id assigned before, removed ones      *)
(* included, and an id held by a Delete or cleanup run in flight never     *)
(* comes to denote another upload.                                         *)
(***************************************************************************)
C22_IdsNeverReused ==
    [][/\ \A id \in CreatedUploads :
             /\ \A old \in DOMAIN issued : old < id
             /\ DOMAIN issued = {} => id = 1
             /\ resp'.op = "upload" /\ resp'.body.id = id
             /\ uploads'[id].id = id
       /\ \A r \in deleting' \cup sweeping' : HoldsSameUpload(r)']_vars

\* An upload into a store emptied by Delete got id 2, with the Delete of 1 answered.
C22_Witness ==
    /\ resp.op = "upload" /\ resp.status = 200 /\ resp.id = 2
    /\ DOMAIN uploads = {2}
    /\ 1 \in deletedOk

(***************************************************************************)
(* PUT and DELETE of upload 1 with its own code, next to the cleanup job:  *)
(* the row a handler read may be gone when its queued statement runs.      *)
(***************************************************************************)
NextStaleWrite ==
    \/ Tick(1)
    \/ \E frnd \in {seq_uploads} :
          Upload(Photo, <<"a">>, Undefined, Undefined, <<"u">>, Sel1d, FirstCode, frnd, 31)
    \/ UpdateGet(1, generateSecretCode(FirstCode), <<"b">>, Undefined, Undefined)
    \/ \E u \in updating : UpdateRun(u)
    \/ DeleteGet(1, generateSecretCode(FirstCode))
    \/ \E r \in deleting : DeleteUnlink(r)
    \/ \E r \in deleting : DeleteRun(r)
    \/ SweepStart
    \/ \E r \in sweeping : SweepUnlink(r)
    \/ \E r \in sweeping : SweepDelete(r)
    \/ Deliver

SpecStaleWrite == Init /\ [][NextStaleWrite]_vars

\* The step answers a PUT or DELETE with its success message.
AnswersWritten ==
    /\ resp' # resp
    /\ resp'.op \in {"update", "delete"}
    /\ resp'.status = 200

(***************************************************************************)
(* C23.  Update and Delete report success only when their write affected   *)
(* the row: a step that answers 'Updated successfully' or 'Deleted         *)
(* successfully' runs its statement on a row that is still stored, so the  *)
(* answer is never given for a write that changed zero rows.               *)
(***************************************************************************)
C23_SuccessOnlyIfRowWritten ==
    [][AnswersWritten => resp'.id \in DOMAIN uploads]_vars

\* 'Updated successfully' answered for an upload the cleanup job had already removed.
C23_Witness ==
    /\ resp.op = "update" /\ resp.status = 200
    /\ resp.body.message = "Updated successfully"
    /\ resp.id \in DOMAIN issued
    /\ resp.id \notin DOMAIN uploads
    /\ resp.id \in SweptIds

(***************************************************************************)
(* Every request on uploads that expire a day after their upload, next to  *)
(* the clock and the cleanup job.                                          *)
(***************************************************************************)
NextLapsed ==
    \/ seq_uploads = MaxUploads /\ Tick(1)
    \/ \E frnd \in {seq_uploads} :
          Upload(Photo, <<"a">>, Undefined, Undefined, <<"u">>, Sel1d, FirstCode, frnd, 31)
    \/ List
    \/ GetById(1)
    \/ Search(<<"a">>, Undefined)
    \/ Leaderboard(Undefined)
    \/ Like(1)
    \/ DownloadGet(1)
    \/ DownloadRun(1)
    \/ UpdateGet(1, generateSecretCode(FirstCode), <<"a", "b">>, Undefined, Undefined)
    \/ \E u \in updating : UpdateRun(u)
    \/ AddComment(1, <<"n">>, <<"c">>)
    \/ SweepStart
    \/ \E r \in sweeping : SweepUnlink(r)
    \/ \E r \in sweeping : SweepDelete(r)
    \/ Deliver

SpecLapsed == Init /\ [][NextLapsed]_vars

\* Upload id is stored and its expires_at has passed.
Lapsed(id) ==
    /\ id \in DOMAIN uploads
    /\ uploads[id].expires_at # Null
    /\ FromISO(uploads[id].expires_at) <= now

\* The step answered a request of kind op about upload id.
AnsweredOn(op, id) == resp' # resp /\ resp'.op = op /\ resp'.id = id

\* The step answered a listing request of kind op.
AnsweredList(op) == resp' # resp /\ resp'.op = op

\* The step stored a comment on upload id.
CommentStored(id) ==
    \E c \in DOMAIN comments' \ DOMAIN comments : comments'[c].upload_id = id

(***************************************************************************)
(* C24.  Expiry takes effect only through the cleanup job.  A stored       *)
(* upload whose expires_at has passed is listed by List, returned by       *)
(* Get-by-id, by a Search it matches and by Leaderboard, is liked,         *)
(* commented on and updated like any other, and is downloaded as long as   *)
(* the job has not unlinked its file; a row leaves the table only in a     *)
(* DELETE step of a cleanup run that read it as expired.                   *)
(***************************************************************************)
C24_ExpiryOnlyThroughSweeper ==
    [][/\ \A id \in Ids :
             Lapsed(id) =>
                /\ AnsweredList("list") => id \in ReturnedIds'
                /\ AnsweredList("search") /\ Wanted(uploads[id], resp'.req) =>
                      id \in ReturnedIds'
                /\ AnsweredList("leaderboard") /\ ~Truthy(resp'.req.month) =>
                      id \in ReturnedIds'
                /\ AnsweredOn("get", id) =>
                      resp'.status = 200 /\ resp'.body.id = id
                /\ AnsweredOn("like", id) =>
                      /\ resp'.status = 200
                      /\ uploads'[id].like_count = uploads[id].like_count + 1
                /\ AnsweredOn("download", id) /\ uploads[id].filename \in files =>
                      Served /\ QueuedOne
                /\ AnsweredOn("comment", id) /\ Truthy(resp'.req.comment) =>
                      resp'.status = 200 /\ CommentStored(id)
                /\ AnsweredOn("update", id) =>
                      /\ resp'.status \in {0, 200}
                      /\ resp'.status = 0 => \E u \in updating' : u.id = id
                      /\ resp'.status = 200 => uploads'[id].title = <<"a", "b">>
       /\ \A id \in RemovedUploads :
             /\ id \in SweptIds
             /\ \E r \in sweeping : r.id = id /\ r \notin sweeping']_vars

\* A listing that names an expired upload, liked and retitled, with a comment
\* stored after its expiry time.
C24_Witness ==
    /\ Lapsed(1)
    /\ resp.op = "list" /\ 1 \in ReturnedIds
    /\ \E c \in CommentsOf(1) : comments[c].created_at >= FromISO(uploads[1].expires_at)
    /\ uploads[1].title = <<"a", "b">>
    /\ uploads[1].like_count > 0

=============================================================================
